---- MODULE Spec2Model ----
(***************************************************************************)
(* Model of the OPrime repository: the fixed-width unsigned integer        *)
(* BigInt4096 (src/BigInt4096.hpp), its modExp / isPrime primitives, and   *)
(* the command-line parser of src/objectPrime.cpp.                         *)
(*                                                                         *)
(* A BigInt4096 is an array of NUM_WORDS machine words, least significant  *)
(* first.  The model keeps the array-of-words representation and every     *)
(* word-level loop of the source, with the word width and the word count   *)
(* scaled down (WordBits bits per word instead of 64, NUM_WORDS words      *)
(* instead of 64) so that a value fits a TLC integer.  The double-width    *)
(* intermediate (__uint128_t) is scaled the same way (2*WordBits bits).    *)
(***************************************************************************)
EXTENDS Integers, Sequences, FiniteSets, TLC

\* static constexpr size_t NUM_WORDS = 64 (scaled)
NUM_WORDS == 4
\* bits of one uint64_t word (scaled)
WordBits == 7

WordBase == 2 ^ WordBits
DWordBase == WordBase * WordBase
TotalBits == NUM_WORDS * WordBits
Idx == 0 .. (NUM_WORDS - 1)

----------------------------------------------------------------------------
\* Statement order.  An operator's arguments are not evaluated until they are
\* used, while the source computes a loop's variables at every iteration.
\* Then(v, e) is e, with v computed first.
Then(v, e) == IF v = v THEN e ELSE e

----------------------------------------------------------------------------
\* Word-level operations of the built-in unsigned type.

\* uint64_t w << k, for 0 <= k < WordBits (bits shifted out are dropped)
WordShl(w, k) == (w * (2 ^ k)) % WordBase
\* uint64_t w >> k
WordShr(w, k) == w \div (2 ^ k)

\* uint64_t u | v, bit by bit from the low end
RECURSIVE WordOr(_, _)
WordOr(u, v) ==
    IF u = 0 THEN v
    ELSE IF v = 0 THEN u
    ELSE (IF u % 2 = 1 \/ v % 2 = 1 THEN 1 ELSE 0) + 2 * WordOr(u \div 2, v \div 2)

----------------------------------------------------------------------------
\* Representation and constructors.

\* data.fill(0) on the words 0 .. k
RECURSIVE Fill0(_)
Fill0(k) == IF k = 0 THEN (0 :> 0) ELSE Fill0(k - 1) @@ (k :> 0)
\* BigInt4096(): data.fill(0)
Zero == Fill0(NUM_WORDS - 1)
\* BigInt4096(uint64_t value): data.fill(0); data[0] = value
FromWord(v) == [Zero EXCEPT ![0] = v]

\* The number a word array stands for: sum of data[i] * 2^(WordBits*i)
RECURSIVE ValFrom(_, _)
ValFrom(a, i) == IF i >= NUM_WORDS THEN 0 ELSE a[i] + WordBase * ValFrom(a, i + 1)
Val(a) == ValFrom(a, 0)
\* The word array of a number in 0 .. 2^TotalBits - 1
RECURSIVE ToBigFrom(_, _, _)
ToBigFrom(v, i, res) ==
    IF i >= NUM_WORDS THEN res
    ELSE ToBigFrom(v \div WordBase, i + 1, [res EXCEPT ![i] = v % WordBase])
ToBig(v) == ToBigFrom(v, 0, Zero)

----------------------------------------------------------------------------
\* operator+ : word-by-word sum with carry, carry out of the top word dropped
RECURSIVE AddLoop(_, _, _, _, _)
AddLoop(a, b, i, carry, res) ==
    IF i >= NUM_WORDS THEN res
    ELSE LET sum == a[i] + b[i] + carry
         IN  AddLoop(a, b, i + 1, sum \div WordBase, [res EXCEPT ![i] = sum % WordBase])
Add(a, b) == AddLoop(a, b, 0, 0, Zero)

\* operator- : the difference is taken in the double-width unsigned type and
\* the borrow is that type's top bit
RECURSIVE SubLoop(_, _, _, _, _)
SubLoop(a, b, i, borrow, res) ==
    IF i >= NUM_WORDS THEN res
    ELSE LET sub == (a[i] - b[i] - borrow) % DWordBase
         IN  SubLoop(a, b, i + 1, (sub \div (DWordBase \div 2)) % 2,
                     [res EXCEPT ![i] = sub % WordBase])
Sub(a, b) == SubLoop(a, b, 0, 0, Zero)

\* Mutant of MulInner: the carry into the next word is lost
RECURSIVE MulInnerNoCarry(_, _, _, _, _, _)
MulInnerNoCarry(ai, i, b, j, carry, res) ==
    IF j + i >= NUM_WORDS THEN res
    ELSE LET mul == (ai * b[j] + res[i + j]) % DWordBase
         IN  MulInnerNoCarry(ai, i, b, j + 1, 0, [res EXCEPT ![i + j] = mul % WordBase])

\* operator* : inner loop over j for one word data[i] of the left operand
RECURSIVE MulInner(_, _, _, _, _, _)
MulInner(ai, i, b, j, carry, res) ==
    IF j + i >= NUM_WORDS THEN res
    ELSE LET mul == (ai * b[j] + res[i + j] + carry) % DWordBase
         IN  MulInner(ai, i, b, j + 1, (mul \div WordBase) % WordBase,
                      [res EXCEPT ![i + j] = mul % WordBase])
RECURSIVE MulOuter(_, _, _, _)
MulOuter(a, b, i, res) ==
    IF i >= NUM_WORDS THEN res
    ELSE IF a[i] = 0 THEN MulOuter(a, b, i + 1, res)
    ELSE MulOuter(a, b, i + 1, MulInner(a[i], i, b, 0, 0, res))
Mul(a, b) == MulOuter(a, b, 0, Zero)

----------------------------------------------------------------------------
\* Comparison.

\* operator== : data == rhs.data
Eq(a, b) == \A i \in Idx : a[i] = b[i]
\* operator< : from the most significant word down, first difference decides
RECURSIVE LessFrom(_, _, _)
LessFrom(a, b, i) ==
    IF i < 0 THEN FALSE
    ELSE IF a[i] < b[i] THEN TRUE
    ELSE IF a[i] > b[i] THEN FALSE
    ELSE LessFrom(a, b, i - 1)
Less(a, b) == LessFrom(a, b, NUM_WORDS - 1)
\* operator<= : !(rhs < *this)
LessEq(a, b) == ~Less(b, a)
\* Mutant of GreaterEq: the comparison is strict
GreaterEqStrict(a, b) == Less(b, a)
\* operator>= : !(*this < rhs)
GreaterEq(a, b) == ~Less(a, b)

----------------------------------------------------------------------------
\* Shifts by an unsigned bit count.

\* Mutant of ShlLoop: the bits coming from the next-lower word are left out
RECURSIVE ShlLoopNoUpper(_, _, _, _, _)
ShlLoopNoUpper(a, wordShift, bitShift, i, res) ==
    IF i < 0 THEN res
    ELSE IF i < wordShift THEN ShlLoopNoUpper(a, wordShift, bitShift, i - 1, res)
    ELSE ShlLoopNoUpper(a, wordShift, bitShift, i - 1,
                        [res EXCEPT ![i] = WordShl(a[i - wordShift], bitShift)])

\* operator<<(size_t shift): the loop runs i from NUM_WORDS-1 down to 0
RECURSIVE ShlLoop(_, _, _, _, _)
ShlLoop(a, wordShift, bitShift, i, res) ==
    IF i < 0 THEN res
    ELSE IF i < wordShift THEN ShlLoop(a, wordShift, bitShift, i - 1, res)
    ELSE LET lower == WordShl(a[i - wordShift], bitShift)
             upper == IF bitShift # 0 /\ i >= wordShift + 1
                      THEN WordShr(a[i - wordShift - 1], WordBits - bitShift)
                      ELSE 0
         IN  ShlLoop(a, wordShift, bitShift, i - 1, [res EXCEPT ![i] = WordOr(lower, upper)])
Shl(a, shift) == ShlLoop(a, shift \div WordBits, shift % WordBits, NUM_WORDS - 1, Zero)

\* operator>>(size_t shift): the loop runs i from 0 up to NUM_WORDS-1
RECURSIVE ShrLoop(_, _, _, _, _)
ShrLoop(a, wordShift, bitShift, i, res) ==
    IF i >= NUM_WORDS THEN res
    ELSE IF i + wordShift >= NUM_WORDS THEN ShrLoop(a, wordShift, bitShift, i + 1, res)
    ELSE LET upper == WordShr(a[i + wordShift], bitShift)
             lower == IF bitShift # 0 /\ i + wordShift + 1 < NUM_WORDS
                      THEN WordShl(a[i + wordShift + 1], WordBits - bitShift)
                      ELSE 0
         IN  ShrLoop(a, wordShift, bitShift, i + 1, [res EXCEPT ![i] = WordOr(upper, lower)])
Shr(a, shift) == ShrLoop(a, shift \div WordBits, shift % WordBits, 0, Zero)

----------------------------------------------------------------------------
\* Outcome of a call that may throw std::runtime_error: either the exception
\* leaves the function (no value is produced) or a value is returned.
NoValue == <<>>
Thrown == [threw |-> TRUE, val |-> NoValue]
Returned(v) == [threw |-> FALSE, val |-> v]

----------------------------------------------------------------------------
\* Restoring long division.

\* (dividend.data[i / 64] >> (i % 64)) & 1
BitAt(a, i) == (a[i \div WordBits] \div (2 ^ (i % WordBits))) % 2

\* current = current << 1; current.data[0] |= bit
ShiftIn(current, bit) ==
    LET sh == Shl(current, 1) IN [sh EXCEPT ![0] = WordOr(sh[0], bit)]
\* quotient.data[i / 64] |= (1ULL << (i % 64))
SetBit(quotient, i) ==
    [quotient EXCEPT ![i \div WordBits] = WordOr(@, WordShl(1, i % WordBits))]

\* The loop of operator/ from bit position i down to 0
RECURSIVE DivLoop(_, _, _, _, _)
DivLoop(dividend, divisor, i, current, quotient) ==
    IF i < 0 THEN quotient
    ELSE LET cur == ShiftIn(current, BitAt(dividend, i))
         IN  IF GreaterEq(cur, divisor)
             THEN DivLoop(dividend, divisor, i - 1, Sub(cur, divisor), SetBit(quotient, i))
             ELSE DivLoop(dividend, divisor, i - 1, cur, quotient)
\* Mutant of Div: the zero test is missing
DivUnchecked(a, b) == Returned(DivLoop(a, b, TotalBits - 1, Zero, Zero))
\* operator/ : throws on a zero divisor, otherwise returns the quotient
Div(a, b) ==
    IF Eq(b, FromWord(0)) THEN Thrown
    ELSE Returned(DivLoop(a, b, TotalBits - 1, Zero, Zero))

\* The loop of operator% from bit position i down to 0
RECURSIVE ModLoop(_, _, _, _)
ModLoop(dividend, divisor, i, current) ==
    IF i < 0 THEN current
    ELSE LET cur == ShiftIn(current, BitAt(dividend, i))
         IN  IF GreaterEq(cur, divisor)
             THEN ModLoop(dividend, divisor, i - 1, Sub(cur, divisor))
             ELSE ModLoop(dividend, divisor, i - 1, cur)
\* operator% : throws on a zero divisor, otherwise returns the running remainder
Mod(a, b) ==
    IF Eq(b, FromWord(0)) THEN Thrown
    ELSE Returned(ModLoop(a, b, TotalBits - 1, Zero))

----------------------------------------------------------------------------
\* Decimal text.  A string is a sequence of character codes.

Char0 == 48
Char9 == 57

\* BigInt4096(const std::string& decimal): non-digit characters are skipped
RECURSIVE ParseFrom(_, _, _)
ParseFrom(decimal, k, this) ==
    IF k > Len(decimal) THEN this
    ELSE LET c == decimal[k]
         IN  IF c < Char0 \/ c > Char9 THEN ParseFrom(decimal, k + 1, this)
             ELSE ParseFrom(decimal, k + 1,
                            Add(Mul(this, FromWord(10)), FromWord(c - Char0)))
Parse(decimal) == ParseFrom(decimal, 1, Zero)

\* The while loop of operator<<(std::ostream&): digits are appended least
\* significant first
RECURSIVE RenderLoop(_, _)
RenderLoop(temp, out) ==
    IF Eq(temp, FromWord(0)) THEN out
    ELSE LET digit == Mod(temp, FromWord(10)).val
         IN  RenderLoop(Div(temp, FromWord(10)).val, Append(out, (Char0 + digit[0]) % 256))
\* Mutant of Reverse: the digits are left in the order of their production
ReverseForgotten(q) == q
\* std::reverse
Reverse(q) == [k \in 1 .. Len(q) |-> q[Len(q) + 1 - k]]
\* operator<<(std::ostream&, const BigInt4096&)
Render(bi) ==
    IF Eq(bi, FromWord(0)) THEN <<Char0>>
    ELSE Reverse(RenderLoop(bi, <<>>))

----------------------------------------------------------------------------
\* Modular exponentiation.

\* The while loop of modExp: one iteration updates result, exp and base in
\* the order of the statements
RECURSIVE ModExpLoop(_, _, _, _)
ModExpLoop(base, exp, mod, result) ==
    IF Eq(exp, FromWord(0)) THEN result
    ELSE LET result1 == IF exp[0] % 2 = 1 THEN Mod(Mul(result, base), mod).val ELSE result
             exp1    == Shr(exp, 1)
             base1   == Mod(Mul(base, base), mod).val
         IN  Then(result1, Then(base1, ModExpLoop(base1, exp1, mod, result1)))
\* static modExp(base, exp, mod)
ModExp(base, exp, mod) ==
    IF Eq(mod, FromWord(0)) THEN Thrown
    ELSE Returned(ModExpLoop(Mod(base, mod).val, exp, mod, FromWord(1)))

----------------------------------------------------------------------------
\* Miller-Rabin primality test.

\* while ((d.data[0] & 1) == 0) { d = d >> 1; ++r; }
RECURSIVE DecomposeLoop(_, _)
DecomposeLoop(dd, rr) ==
    IF dd[0] % 2 = 0 THEN DecomposeLoop(Shr(dd, 1), rr + 1)
    ELSE [d |-> dd, r |-> rr]

\* const int basePrimes[5] = {2, 3, 5, 7, 11}
basePrimes == <<2, 3, 5, 7, 11>>
\* What a read past the end of basePrimes may find, as converted to uint64_t:
\* any int left on the stack (a negative one converts to a word of one bits)
MaxStray == 12
StrayInts == (0 .. MaxStray) \cup {WordBase - 1}
\* The values basePrimes[k] can read
ReadBasePrime(k) ==
    IF k \in 0 .. (Len(basePrimes) - 1) THEN {basePrimes[k + 1]} ELSE StrayInts

\* Mutant of SquareLoop: `passed` starts out true
RECURSIVE SquareLoopPassedInit(_, _, _, _)
SquareLoopPassedInit(xx, j, rr, nn) ==
    IF j >= rr THEN TRUE
    ELSE LET x1 == ModExp(xx, FromWord(2), nn).val
         IN  IF Eq(x1, Sub(nn, FromWord(1))) THEN TRUE
             ELSE SquareLoopPassedInit(x1, j + 1, rr, nn)

\* for (int j = 1; j < r; ++j) { x = modExp(x, 2, n); if (x == n - 1) ... }
\* the value of `passed` after the loop
RECURSIVE SquareLoop(_, _, _, _)
SquareLoop(xx, j, rr, nn) ==
    IF j >= rr THEN FALSE
    ELSE LET x1 == ModExp(xx, FromWord(2), nn).val
         IN  IF Eq(x1, Sub(nn, FromWord(1))) THEN TRUE
             ELSE SquareLoop(x1, j + 1, rr, nn)

\* One iteration of the witness loop: TRUE when the loop goes on to the next
\* witness, FALSE when isPrime returns false
WitnessPasses(a, dd, rr, nn) ==
    LET x0 == ModExp(a, dd, nn).val
    IN  IF Eq(x0, FromWord(1)) \/ Eq(x0, Sub(nn, FromWord(1))) THEN TRUE
        ELSE SquareLoop(x0, 1, rr, nn)

----------------------------------------------------------------------------
\* Command line.

Space == 32
\* std::istream >> std::string : skip leading whitespace, then read up to the
\* next whitespace or the end; [token, eof (the end was reached), fail (the
\* token is empty)]
RECURSIVE SkipSpace(_, _)
SkipSpace(arg, k) ==
    IF k <= Len(arg) /\ arg[k] = Space THEN SkipSpace(arg, k + 1) ELSE k
RECURSIVE TokenEnd(_, _)
TokenEnd(arg, k) ==
    IF k <= Len(arg) /\ arg[k] # Space THEN TokenEnd(arg, k + 1) ELSE k
ReadToken(arg) ==
    LET from == SkipSpace(arg, 1)
        to   == TokenEnd(arg, from)
    IN  [token |-> SubSeq(arg, from, to - 1),
         eof   |-> to > Len(arg),
         fail  |-> to = from]

\* parse_BigInt4096(arg, out): [ok, value]; out is assigned even when the
\* result is false
ParseBigInt(arg) ==
    LET t == ReadToken(arg)
    IN  [ok |-> ~t.fail /\ t.eof, value |-> Parse(t.token)]

----------------------------------------------------------------------------
\* State.

VARIABLES
    pc,         \* control point of the running call: "call", "loop", "done"
    op,         \* the operation called
    x, y, z,    \* operands (*this / rhs; base, exp, mod)
    shift,      \* size_t shift count
    out,        \* value returned, NoValue while none has been produced
    threw,      \* TRUE when std::runtime_error left the call
    str,        \* text produced by operator<<(std::ostream&)
    current,    \* running remainder of the division loop
    quotient,   \* quotient of the division loop
    i,          \* loop index of the running function
    n, rounds,  \* arguments of isPrime
    d, r,       \* isPrime: n - 1 = 2^r * d
    options,    \* what getopt_long yields for argv: <<[code, optarg], ...>>
    optind,     \* index of the next option
    has_n, has_le, has_all, show_runtime,
    n_value, le_value, all_value,
    timeout     \* fields of TimedTaskApp

coreVars  == <<op, x, y, z, shift, out, threw, str>>
divVars   == <<current, quotient, i>>
primeVars == <<n, rounds, d, r>>
cliVars   == <<options, optind, has_n, has_le, has_all, show_runtime,
               n_value, le_value, all_value, timeout>>
vars      == <<pc, coreVars, divVars, primeVars, cliVars>>

\* Field initialisers of TimedTaskApp
AppFields ==
    /\ has_n = FALSE /\ has_le = FALSE /\ has_all = FALSE /\ show_runtime = FALSE
    /\ n_value = FromWord(0) /\ le_value = FromWord(0) /\ all_value = FromWord(0)
    /\ timeout = 0

\* Nothing has been called yet
NoCall ==
    /\ op = "none" /\ shift = 0 /\ out = NoValue /\ threw = FALSE /\ str = <<>>
    /\ current = Zero /\ quotient = Zero /\ i = 0
    /\ d = Zero /\ r = 0
    /\ optind = 1
    /\ AppFields
\* Arguments that the checked run does not use
NoOperands == x = Zero /\ y = Zero /\ z = Zero
NoPrimeArgs == n = Zero /\ rounds = 0
NoArgv == options = <<>>

\* A call either throws (no value is produced) or returns a value
Finish(name, outcome) ==
    /\ pc' = "done"
    /\ op' = name
    /\ threw' = outcome.threw
    /\ out' = outcome.val

----------------------------------------------------------------------------
\* Input domains of the checked runs.

MaxSmall == 2
\* Values near zero, near the top of the range and around every word boundary
EdgeValues ==
    (0 .. MaxSmall)
    \cup { 2 ^ TotalBits - 1 - j : j \in 0 .. MaxSmall }
    \cup { 2 ^ (WordBits * k) - 1 : k \in 1 .. (NUM_WORDS - 1) }
    \cup { 2 ^ (WordBits * k) : k \in 1 .. (NUM_WORDS - 1) }
    \cup { 2 ^ (TotalBits - 1) - 1, 2 ^ (TotalBits - 1), 2 ^ (TotalBits - 1) + 1 }
    \cup { (2 ^ TotalBits - 1) \div 3, 2 * ((2 ^ TotalBits - 1) \div 3) }
Bigs(S) == { ToBig(v) : v \in S }

----------------------------------------------------------------------------
\* Addition, subtraction, multiplication.

ArithInit ==
    /\ pc = "call"
    /\ x \in Bigs(EdgeValues) /\ y \in Bigs(EdgeValues) /\ z \in Bigs(EdgeValues)
    /\ NoPrimeArgs /\ NoArgv /\ NoCall

OpAdd ==
    /\ pc = "call"
    /\ Finish("add", Returned(Add(x, y)))
    /\ UNCHANGED <<x, y, z, shift, str, divVars, primeVars, cliVars>>

OpSub ==
    /\ pc = "call"
    /\ Finish("sub", Returned(Sub(x, y)))
    /\ UNCHANGED <<x, y, z, shift, str, divVars, primeVars, cliVars>>

OpMul ==
    /\ pc = "call"
    /\ Finish("mul", Returned(Mul(x, y)))
    /\ UNCHANGED <<x, y, z, shift, str, divVars, primeVars, cliVars>>

ArithNext == OpAdd \/ OpSub \/ OpMul
SpecArith == ArithInit /\ [][ArithNext]_vars

----------------------------------------------------------------------------
\* Shifts.

MaxShift == 40
\* Every value with at most two bits set, and every run of low one bits
ShiftValues ==
    { 2 ^ j + 2 ^ k : j, k \in 0 .. (TotalBits - 2) }
    \cup { 2 ^ k - 1 : k \in 0 .. TotalBits }
    \cup { 2 ^ (TotalBits - 1) + 2 ^ k : k \in 0 .. (TotalBits - 2) }
    \cup { 2 ^ (TotalBits - 1) }

ShiftInit ==
    /\ pc = "call"
    /\ x \in Bigs(ShiftValues) /\ y = Zero /\ z = Zero
    /\ NoPrimeArgs /\ NoArgv /\ NoCall

OpShl ==
    /\ pc = "call"
    /\ \E s \in 0 .. MaxShift :
          /\ shift' = s
          /\ Finish("shl", Returned(Shl(x, s)))
    /\ UNCHANGED <<x, y, z, str, divVars, primeVars, cliVars>>

OpShr ==
    /\ pc = "call"
    /\ \E s \in 0 .. MaxShift :
          /\ shift' = s
          /\ Finish("shr", Returned(Shr(x, s)))
    /\ UNCHANGED <<x, y, z, str, divVars, primeVars, cliVars>>

ShiftNext == OpShl \/ OpShr
SpecShift == ShiftInit /\ [][ShiftNext]_vars

----------------------------------------------------------------------------
\* Decimal rendering and parsing.

MaxText == 120
TextValues ==
    (0 .. MaxText) \cup EdgeValues
    \cup { 10 ^ k : k \in 1 .. 8 } \cup { 10 ^ k - 1 : k \in 1 .. 8 }
    \cup { 10 ^ k + 1 : k \in 1 .. 8 }

TextInit ==
    /\ pc = "call"
    /\ x \in Bigs(TextValues) /\ y = Zero /\ z = Zero
    /\ NoPrimeArgs /\ NoArgv /\ NoCall

\* os << bi
OpRender ==
    /\ pc = "call"
    /\ pc' = "rendered"
    /\ op' = "render"
    /\ str' = Render(x)
    /\ UNCHANGED <<x, y, z, shift, out, threw, divVars, primeVars, cliVars>>

\* BigInt4096(str) on the text just written
OpParse ==
    /\ pc = "rendered"
    /\ Finish("parse", Returned(Parse(str)))
    /\ UNCHANGED <<x, y, z, shift, str, divVars, primeVars, cliVars>>

TextNext == OpRender \/ OpParse
SpecText == TextInit /\ [][TextNext]_vars

----------------------------------------------------------------------------
\* operator/ and operator% run one loop iteration at a time.

DivValues == EdgeValues \cup {3, 10, 497, 1000}

DivInit ==
    /\ pc = "call"
    /\ x \in Bigs(DivValues) /\ y \in Bigs(DivValues) /\ z = Zero
    /\ NoPrimeArgs /\ NoArgv /\ NoCall

\* Entry of operator/ (name = "div") or operator% (name = "mod"):
\* the zero test, then the declarations of the loop variables
DivEnter(name) ==
    /\ pc = "call"
    /\ IF Eq(y, FromWord(0))
       THEN /\ Finish(name, Thrown)
            /\ UNCHANGED divVars
       ELSE /\ pc' = "loop"
            /\ op' = name
            /\ current' = Zero
            /\ quotient' = Zero
            /\ i' = TotalBits - 1
            /\ UNCHANGED <<out, threw>>
    /\ UNCHANGED <<x, y, z, shift, str, primeVars, cliVars>>

DivCall == DivEnter("div")
ModCall == DivEnter("mod")

\* One iteration of the for loop (operator% keeps no quotient)
DivIter ==
    /\ pc = "loop" /\ op \in {"div", "mod"}
    /\ i >= 0
    /\ LET cur == ShiftIn(current, BitAt(x, i))
       IN  IF GreaterEq(cur, y)
           THEN /\ current' = Sub(cur, y)
                /\ quotient' = IF op = "div" THEN SetBit(quotient, i) ELSE quotient
           ELSE /\ current' = cur
                /\ quotient' = quotient
    /\ i' = i - 1
    /\ UNCHANGED <<pc, coreVars, primeVars, cliVars>>

\* return quotient / return current
DivReturn ==
    /\ pc = "loop" /\ op \in {"div", "mod"}
    /\ i < 0
    /\ Finish(op, Returned(IF op = "div" THEN quotient ELSE current))
    /\ UNCHANGED <<x, y, z, shift, str, divVars, primeVars, cliVars>>

DivNext == DivCall \/ ModCall \/ DivIter \/ DivReturn
SpecDiv == DivInit /\ [][DivNext]_vars

----------------------------------------------------------------------------
\* The three calls that can throw: x / z, x % z and modExp(x, y, z).

MaxBase == 4
MaxExp == 13
Bases == (0 .. MaxBase) \cup { 2 ^ (TotalBits \div 2) + 1, 2 ^ TotalBits - 1 }
Exps == 0 .. MaxExp
Moduli == { 0, 1, 2, 3, 497, 1000, 2 ^ (TotalBits \div 2),
            2 ^ (TotalBits - 1) + 1, 2 ^ TotalBits - 1 }

Init ==
    /\ pc = "call"
    /\ x \in Bigs(Bases) /\ y \in Bigs(Exps) /\ z \in Bigs(Moduli)
    /\ NoPrimeArgs /\ NoArgv /\ NoCall

OpDiv ==
    /\ pc = "call"
    /\ Finish("div", Div(x, z))
    /\ UNCHANGED <<x, y, z, shift, str, divVars, primeVars, cliVars>>

OpMod ==
    /\ pc = "call"
    /\ Finish("mod", Mod(x, z))
    /\ UNCHANGED <<x, y, z, shift, str, divVars, primeVars, cliVars>>

OpModExp ==
    /\ pc = "call"
    /\ Finish("modExp", ModExp(x, y, z))
    /\ UNCHANGED <<x, y, z, shift, str, divVars, primeVars, cliVars>>

Next == OpDiv \/ OpMod \/ OpModExp
Spec == Init /\ [][Next]_vars

----------------------------------------------------------------------------
\* isPrime(n, rounds).

\* if (n <= 1) ...; if (n == 2 || n == 3) ...; if (n even) ...; d, r
PrimeCall ==
    /\ pc = "call"
    /\ op' = "isPrime"
    /\ IF LessEq(n, FromWord(1))
       THEN pc' = "done" /\ out' = FALSE /\ UNCHANGED <<d, r, i>>
       ELSE IF Eq(n, FromWord(2)) \/ Eq(n, FromWord(3))
       THEN pc' = "done" /\ out' = TRUE /\ UNCHANGED <<d, r, i>>
       ELSE IF n[0] % 2 = 0
       THEN pc' = "done" /\ out' = FALSE /\ UNCHANGED <<d, r, i>>
       ELSE LET dec == DecomposeLoop(Sub(n, FromWord(1)), 0)
            IN  /\ pc' = "loop"
                /\ d' = dec.d
                /\ r' = dec.r
                /\ i' = 0
                /\ UNCHANGED out
    /\ UNCHANGED <<x, y, z, shift, threw, str, current, quotient, n, rounds, cliVars>>

\* One iteration of for (int i = 0; i < rounds; ++i)
PrimeRound ==
    /\ pc = "loop" /\ op = "isPrime"
    /\ i < rounds
    /\ \E a \in ReadBasePrime(i) :
          IF WitnessPasses(FromWord(a), d, r, n)
          THEN i' = i + 1 /\ UNCHANGED <<pc, out>>
          ELSE pc' = "done" /\ out' = FALSE /\ UNCHANGED i
    /\ UNCHANGED <<op, x, y, z, shift, threw, str, current, quotient, primeVars, cliVars>>

\* The loop ends: return true
PrimeReturn ==
    /\ pc = "loop" /\ op = "isPrime"
    /\ i >= rounds
    /\ pc' = "done"
    /\ out' = TRUE
    /\ UNCHANGED <<op, x, y, z, shift, threw, str, divVars, primeVars, cliVars>>

PrimeNext == PrimeCall \/ PrimeRound \/ PrimeReturn

DefaultRounds == 5
MaxPrimeN == 500
PrimeValues == (0 .. MaxPrimeN) \cup {341, 561, 1105, 1729, 2047, 7919, 9999}

\* isPrime(n) with the default rounds
PrimeInit ==
    /\ pc = "call"
    /\ n \in Bigs(PrimeValues) /\ rounds = DefaultRounds
    /\ NoOperands /\ NoArgv /\ NoCall
SpecPrime == PrimeInit /\ [][PrimeNext]_vars

MaxRounds == 7
MaxRoundsN == 30
\* isPrime(n, rounds) with any rounds
RoundsInit ==
    /\ pc = "call"
    /\ n \in Bigs(0 .. MaxRoundsN) /\ rounds \in 0 .. MaxRounds
    /\ NoOperands /\ NoArgv /\ NoCall
SpecRounds == RoundsInit /\ [][PrimeNext]_vars

----------------------------------------------------------------------------
\* TimedTaskApp::parse_arguments.
\*
\* getopt_long(argc, argv, "n:t:", long_options) hands the options of the
\* command line over one by one, each as a code with its argument: 'n' and
\* 't' for the short options, "le" (1000), "rt" (1001), "all" (1002) for the
\* long ones, '?' for anything else.

ModeCodes == {"n", "le", "all"}
\* "10", "" and "7 " as option arguments of the mode options
ModeArgs == { <<49, 48>>, <<>>, <<55, Space>> }
\* "5" and "0" as arguments of -t
TimeArgs == { <<53>>, <<48>> }
Options ==
    [code : ModeCodes, optarg : ModeArgs]
    \cup [code : {"t"}, optarg : TimeArgs]
    \cup [code : {"rt", "?"}, optarg : {<<>>}]

MaxArgs == 3
RECURSIVE SeqsUpTo(_, _)
SeqsUpTo(S, k) ==
    IF k = 0 THEN {<<>>}
    ELSE LET shorter == SeqsUpTo(S, k - 1)
         IN  shorter \cup { Append(q, e) : q \in shorter, e \in S }

CliInit ==
    /\ pc = "call"
    /\ options \in SeqsUpTo(Options, MaxArgs)
    /\ NoOperands /\ NoPrimeArgs /\ NoCall

\* optind = 1
CliCall ==
    /\ pc = "call"
    /\ pc' = "loop"
    /\ op' = "parse_arguments"
    /\ optind' = 1
    /\ UNCHANGED <<x, y, z, shift, out, threw, str, divVars, primeVars, options,
                   has_n, has_le, has_all, show_runtime,
                   n_value, le_value, all_value, timeout>>

\* One iteration of while ((opt = getopt_long(...)) != -1) switch (opt).
\* The only labels of the switch are 'n', 1000, 1001, 1002 and default; the
\* statements that store the timeout follow the break of case 'n' without a
\* label of their own, so no code reaches them.
CliOption ==
    /\ pc = "loop" /\ op = "parse_arguments"
    /\ optind <= Len(options)
    /\ optind' = optind + 1
    /\ LET opt == options[optind].code
           p   == ParseBigInt(options[optind].optarg)
       IN  CASE opt = "n" ->
                  /\ n_value' = p.value
                  /\ IF ~p.ok
                     THEN pc' = "done" /\ out' = FALSE /\ UNCHANGED has_n
                     ELSE has_n' = TRUE /\ UNCHANGED <<pc, out>>
                  /\ UNCHANGED <<has_le, has_all, show_runtime, le_value, all_value>>
             [] opt = "le" ->
                  /\ le_value' = p.value
                  /\ IF ~p.ok
                     THEN pc' = "done" /\ out' = FALSE /\ UNCHANGED has_le
                     ELSE has_le' = TRUE /\ UNCHANGED <<pc, out>>
                  /\ UNCHANGED <<has_n, has_all, show_runtime, n_value, all_value>>
             [] opt = "rt" ->
                  /\ show_runtime' = TRUE
                  /\ UNCHANGED <<pc, out, has_n, has_le, has_all,
                                 n_value, le_value, all_value>>
             [] opt = "all" ->
                  /\ all_value' = p.value
                  /\ IF ~p.ok
                     THEN pc' = "done" /\ out' = FALSE /\ UNCHANGED has_all
                     ELSE has_all' = TRUE /\ UNCHANGED <<pc, out>>
                  /\ UNCHANGED <<has_n, has_le, show_runtime, n_value, le_value>>
             [] OTHER ->
                  /\ pc' = "done" /\ out' = FALSE
                  /\ UNCHANGED <<has_n, has_le, has_all, show_runtime,
                                 n_value, le_value, all_value>>
    /\ UNCHANGED <<op, x, y, z, shift, threw, str, divVars, primeVars, options, timeout>>

BoolInt(b) == IF b THEN 1 ELSE 0

\* getopt_long returns -1: return (has_n + has_le + has_all == 1)
CliEnd ==
    /\ pc = "loop" /\ op = "parse_arguments"
    /\ optind > Len(options)
    /\ pc' = "done"
    /\ out' = (BoolInt(has_n) + BoolInt(has_le) + BoolInt(has_all) = 1)
    /\ UNCHANGED <<op, x, y, z, shift, threw, str, divVars, primeVars, cliVars>>

CliNext == CliCall \/ CliOption \/ CliEnd
SpecCli == CliInit /\ [][CliNext]_vars

----------------------------------------------------------------------------
\* Reference arithmetic on the integers, against which the results are read.

Modulus == 2 ^ TotalBits
TopBit == 2 ^ (TotalBits - 1)

\* (a * b) % m by doubling, for 0 <= a < m
RECURSIVE MulMod(_, _, _)
MulMod(a, b, m) ==
    IF b = 0 THEN 0
    ELSE LET h == MulMod(a, b \div 2, m)
         IN  (((h + h) % m) + (IF b % 2 = 1 THEN a ELSE 0)) % m

\* (b ^ e) % m
RECURSIVE PowMod(_, _, _)
PowMod(b, e, m) ==
    IF e = 0 THEN 1 % m
    ELSE MulMod(b % m, PowMod(b, e - 1, m), m)

\* v is a prime number
IsPrimeNumber(v) ==
    /\ v > 1
    /\ \A k \in 2 .. (v - 1) : k * k > v \/ v % k # 0

\* The decimal numeral of v, as character codes
RECURSIVE DecimalOf(_)
DecimalOf(v) ==
    IF v < 10 THEN <<Char0 + v>>
    ELSE Append(DecimalOf(v \div 10), Char0 + (v % 10))

----------------------------------------------------------------------------
\* Claims.

\* C1: isPrime(n) with the default rounds = 5 returns true for every prime n
\* (2, 3, 5, 17, 97, 7919 and every other prime of the checked values,
\* the witnesses 5, 7 and 11 included).
C1_PrimesAccepted ==
    (op = "isPrime" /\ pc = "done" /\ rounds = DefaultRounds /\ IsPrimeNumber(Val(n)))
        => out = TRUE

\* C2: isPrime(n) with the default rounds = 5 returns false for 0, 1, every
\* even n > 2 and every other composite n of the checked values (4, 9, 100,
\* 9999 and the Carmichael number 561 among them).
C2_CompositesRejected ==
    (op = "isPrime" /\ pc = "done" /\ rounds = DefaultRounds /\ ~IsPrimeNumber(Val(n)))
        => out = FALSE
C2_Witness ==
    op = "isPrime" /\ pc = "done" /\ Val(n) = 561 /\ r > 1 /\ out = FALSE

\* C3: for every dividend x and divisor y # 0 (top bit set or not),
\* x = (x / y) * y + (x % y) and 0 <= x % y < y, the quotient and remainder
\* are the mathematical ones, and the running remainder of the loop never
\* has its top bit set when it is about to be shifted left.
C3_DivisionIdentity ==
    /\ (pc = "loop" /\ op \in {"div", "mod"} /\ i >= 0)
          => Val(Shl(current, 1)) = 2 * Val(current)
    /\ (pc = "done" /\ op \in {"div", "mod"} /\ ~threw)
          => LET q  == IF op = "div" THEN out ELSE Div(x, y).val
                 rm == IF op = "mod" THEN out ELSE Mod(x, y).val
             IN  /\ x = Add(Mul(q, y), rm)
                 /\ Less(rm, y)
                 /\ Val(q) = Val(x) \div Val(y)
                 /\ Val(rm) = Val(x) % Val(y)
                 /\ out = (IF op = "div" THEN Div(x, y).val ELSE Mod(x, y).val)
C3_Witness ==
    /\ pc = "done" /\ op = "mod" /\ ~threw
    /\ Val(y) > TopBit /\ Val(x) > Val(y) /\ Val(out) = Val(x) - Val(y)

\* C4: for all base x, exponent y and modulus z > 1 over the full value range
\* (moduli above the square root of the range included), modExp(x, y, z)
\* returns x^y mod z.
C4_ModExpExact ==
    (pc = "done" /\ op = "modExp" /\ Val(z) > 1)
        => (~threw /\ Val(out) = PowMod(Val(x), Val(y), Val(z)))

\* C5: x / 0, x % 0 and modExp(x, y, 0) each throw without producing a
\* value, and with a nonzero divisor or modulus none of the three throws.
C5_DivisionByZero ==
    (pc = "done" /\ op \in {"div", "mod", "modExp"})
        => /\ threw <=> (Val(z) = 0)
           /\ threw => out = NoValue
           /\ ~threw => out # NoValue
C5_Witness ==
    pc = "done" /\ op = "modExp" /\ Val(z) = 0 /\ Val(x) > 0 /\ threw /\ out = NoValue

\* C6: for every rounds and every n, the index with which isPrime reads the
\* witness table stays within 0 .. 4.
C6_WitnessIndexInRange ==
    (op = "isPrime" /\ pc = "loop" /\ i < rounds)
        => i \in 0 .. (Len(basePrimes) - 1)

\* C7: addition, subtraction and multiplication return the mathematical
\* result modulo 2^TotalBits, so that (x + y) - y = x and
\* x * (y + z) = x*y + x*z.
C7_ArithExact ==
    /\ (pc = "done" /\ op = "add")
          => /\ Val(out) = (Val(x) + Val(y)) % Modulus
             /\ Sub(out, y) = x
    /\ (pc = "done" /\ op = "sub")
          => Val(out) = (Val(x) - Val(y)) % Modulus
    /\ (pc = "done" /\ op = "mul")
          => /\ Val(out) = MulMod(Val(x), Val(y), Modulus)
             /\ Mul(x, Add(y, z)) = Add(out, Mul(x, z))
C7_Witness ==
    /\ pc = "done" /\ op = "mul"
    /\ Val(x) = Modulus - 2 /\ Val(y) = Modulus - 1 /\ Val(z) = 2
    /\ Val(out) = 2

\* C8: parsing the decimal rendering of x gives x back; the rendering is the
\* decimal numeral of x, with no leading '0' unless x is zero, which renders
\* as "0".
C8_RoundTrip ==
    /\ (pc = "rendered" \/ (pc = "done" /\ op = "parse"))
          => /\ str = DecimalOf(Val(x))
             /\ Len(str) >= 1
             /\ (str[1] = Char0) <=> (Val(x) = 0)
             /\ Val(x) = 0 => str = <<Char0>>
    /\ (pc = "done" /\ op = "parse") => out = x
C8_Witness ==
    pc = "done" /\ op = "parse" /\ Val(x) = Modulus - 1 /\ Len(str) > 1 /\ out = x

\* C9: when x < 2^(TotalBits - s), (x << s) >> s = x (s a multiple of the
\* word width or not); for s >= TotalBits both x << s and x >> s are zero.
C9_ShiftRoundTrip ==
    /\ (pc = "done" /\ op = "shl")
          => /\ shift >= TotalBits => out = Zero
             /\ (shift < TotalBits /\ Val(x) < 2 ^ (TotalBits - shift))
                   => /\ Shr(out, shift) = x
                      /\ Val(out) = Val(x) * (2 ^ shift)
    /\ (pc = "done" /\ op = "shr")
          => /\ shift >= TotalBits => out = Zero
             /\ shift < TotalBits => Val(out) = Val(x) \div (2 ^ shift)
C9_Witness ==
    /\ pc = "done" /\ op = "shl"
    /\ shift > WordBits /\ shift < TotalBits /\ shift % WordBits # 0
    /\ Val(x) > WordBase /\ Val(x) < 2 ^ (TotalBits - shift)
    /\ x[0] # 0 /\ x[1] # 0
    /\ Shr(out, shift) = x

\* The options are exactly one mode option with a valid integer and one -t
\* with a non-negative integer (in either order)
ModeWithTimeout(opts) ==
    /\ Len(opts) = 2
    /\ \E m, t \in 1 .. 2 :
          /\ m # t
          /\ opts[m].code \in ModeCodes
          /\ ParseBigInt(opts[m].optarg).ok
          /\ opts[t].code = "t"

\* C10: with exactly one mode option carrying a valid integer plus
\* -t <seconds>, parse_arguments returns true and timeout is the number of
\* seconds given.
C10_TimeoutAccepted ==
    (op = "parse_arguments" /\ pc = "done" /\ ModeWithTimeout(options))
        => /\ out = TRUE
           /\ \E t \in 1 .. 2 :
                 options[t].code = "t" /\ timeout = Val(Parse(options[t].optarg))

====
